---- MODULE Spec2Model ----
(***************************************************************************)
(* A model of the SOR file parser, sor-parser/scripts/sor_parser.py.       *)
(*                                                                         *)
(* The input buffer is a sequence of bytes (0..255).  Python positions are *)
(* 0-based: the byte at position p is data[p + 1].  The byte cursor        *)
(* (SORReader) is the pair (data, pos); data never changes during a parse. *)
(* A read is an operator from (data, pos) to [ok, pos, val]: ok = FALSE    *)
(* stands for the exception the read raises (struct.error), and then pos   *)
(* is the position the cursor is left at.                                  *)
(*                                                                         *)
(* Numbers the code derives by a float division keep their raw integer in  *)
(* the model (a value in dB is held in units of 0.001 dB, a group index in *)
(* units of 1e-5, a distance in millimetres).                              *)
(***************************************************************************)
EXTENDS Integers, Sequences, FiniteSets, TLC

VARIABLES data, pos, pc, start, version, nbytes, num_blocks, blocks_info,
          block_map, result, group_index, calls, returns

vars == <<data, pos, pc, start, version, nbytes, num_blocks, blocks_info,
          block_map, result, group_index, calls, returns>>

----------------------------------------------------------------------------
(* Block names, as the latin-1 bytes of the strings the code compares.     *)

Map == <<77, 97, 112>>
SupParams == <<83, 117, 112, 80, 97, 114, 97, 109, 115>>
GenParams == <<71, 101, 110, 80, 97, 114, 97, 109, 115>>
FxdParams == <<70, 120, 100, 80, 97, 114, 97, 109, 115>>
KeyEvents == <<75, 101, 121, 69, 118, 101, 110, 116, 115>>
DataPts == <<68, 97, 116, 97, 80, 116, 115>>

\* The known blocks in the order parse_sor handles them.
KnownOrder == <<SupParams, GenParams, FxdParams, KeyEvents, DataPts>>

\* The top-level key of the record each known block is stored under.
KeyOf(name) ==
  CASE name = SupParams -> "equipment"
    [] name = GenParams -> "general"
    [] name = FxdParams -> "acquisition"
    [] name = KeyEvents -> "key_events"
    [] name = DataPts -> "data_points"

\* version >= 200 selects the v2 layouts; a v1 map has version < 200.
V2 == 200

\* group_index = 1.46850, in units of 1e-5.
DefaultGroupIndex == 146850

\* c = 299792458.0 m/s
SpeedOfLight == 299792458

\* Placeholders for a value not yet assigned.
None == -1

----------------------------------------------------------------------------
(* SORReader                                                               *)

Byte(d, p) == d[p + 1]

Ok(p, v) == [ok |-> TRUE, pos |-> p, val |-> v]
Raise(p) == [ok |-> FALSE, pos |-> p, val |-> None]

\* struct.unpack_from("<H", data, pos): raises unless 2 bytes remain.
read_uint16(d, p) ==
  IF p + 2 <= Len(d)
  THEN Ok(p + 2, Byte(d, p) + 256 * Byte(d, p + 1))
  ELSE Raise(p)

\* struct.unpack_from("<I", data, pos): raises unless 4 bytes remain.
read_uint32(d, p) ==
  IF p + 4 <= Len(d)
  THEN Ok(p + 4, Byte(d, p) + 256 * Byte(d, p + 1) + 65536 * Byte(d, p + 2)
                   + 16777216 * Byte(d, p + 3))
  ELSE Raise(p)

\* struct.unpack_from("<h", data, pos): two's complement, 16 bits.
read_int16(d, p) ==
  IF p + 2 <= Len(d)
  THEN Ok(p + 2, Byte(d, p)
                   + 256 * (IF Byte(d, p + 1) >= 128 THEN Byte(d, p + 1) - 256
                                                      ELSE Byte(d, p + 1)))
  ELSE Raise(p)

\* struct.unpack_from("<i", data, pos): two's complement, 32 bits.
read_int32(d, p) ==
  IF p + 4 <= Len(d)
  THEN Ok(p + 4, Byte(d, p) + 256 * Byte(d, p + 1) + 65536 * Byte(d, p + 2)
                   + 16777216 * (IF Byte(d, p + 3) >= 128 THEN Byte(d, p + 3) - 256
                                                            ELSE Byte(d, p + 3)))
  ELSE Raise(p)

\* data.index(b"\x00", pos), or len(data) when there is no NUL at or after pos.
IndexOfNul(d, p) ==
  LET nuls == {i \in p..(Len(d) - 1) : Byte(d, i) = 0}
  IN IF nuls = {} THEN Len(d)
     ELSE CHOOSE i \in nuls : \A j \in nuls : i <= j

\* data[a:b] for 0 <= a: empty when a >= b, cut at len(data).
Slice(d, a, b) ==
  LET e == IF b > Len(d) THEN Len(d) ELSE b
  IN IF a >= e THEN <<>> ELSE SubSeq(d, a + 1, e)

\* A read_string that stays where it is when no terminator is left; C17
\* tells it from the code's.
read_string_stays(d, p) ==
  IF \E i \in p..(Len(d) - 1) : Byte(d, i) = 0
  THEN Ok(IndexOfNul(d, p) + 1, Slice(d, p, IndexOfNul(d, p)))
  ELSE Ok(p, <<>>)

\* read_string never raises; the cursor is left one past the terminator, or
\* at len(data) + 1 when there is none.
read_string(d, p) ==
  LET end == IndexOfNul(d, p)
  IN Ok(end + 1, Slice(d, p, end))

\* read_bytes never raises; the slice is short when the buffer ends first.
read_bytes(d, p, n) == Ok(p + n, Slice(d, p, p + n))

seek(p) == p

\* One typed read, by the name of its type.
ReadOne(d, p, type) ==
  CASE type = "u16" -> read_uint16(d, p)
    [] type = "u32" -> read_uint32(d, p)
    [] type = "i16" -> read_int16(d, p)
    [] type = "i32" -> read_int32(d, p)
    [] type = "str" -> read_string(d, p)

\* A run of consecutive reads: the first one that raises ends the run, and
\* the cursor stays where that read began.
RECURSIVE ReadFields(_, _, _)
ReadFields(d, p, layout) ==
  IF layout = <<>> THEN [ok |-> TRUE, pos |-> p, vals |-> <<>>]
  ELSE LET r == ReadOne(d, p, Head(layout))
       IN IF ~r.ok THEN [ok |-> FALSE, pos |-> r.pos, vals |-> <<>>]
          ELSE LET rest == ReadFields(d, r.pos, Tail(layout))
               IN [ok |-> rest.ok, pos |-> rest.pos,
                   vals |-> IF rest.ok THEN <<r.val>> \o rest.vals ELSE <<>>]

\* n times the same type, for a run of n reads.
RECURSIVE Repeat(_, _)
Repeat(type, n) == IF n = 0 THEN <<>> ELSE <<type>> \o Repeat(type, n - 1)

\* [reader.read_xxx() for _ in range(n)]: the list, or the raise of the first
\* read that fails.
RECURSIVE ReadArray(_, _, _, _, _)
ReadArray(d, p, type, n, vals) ==
  IF n = 0 THEN [ok |-> TRUE, pos |-> p, vals |-> vals]
  ELSE LET r == ReadOne(d, p, type)
       IN IF ~r.ok THEN [ok |-> FALSE, pos |-> r.pos, vals |-> <<>>]
          ELSE ReadArray(d, r.pos, type, n - 1, Append(vals, r.val))

----------------------------------------------------------------------------
(* parse_map                                                               *)

\* The header: version, nbytes, and num_blocks when version < 200.
MapHeader(d, p) ==
  ReadFields(d, p, IF read_uint16(d, p).ok /\ read_uint16(d, p).val < V2
                   THEN <<"u16", "u32", "u16">>
                   ELSE <<"u16", "u32">>)

\* A loop that also stops at the declared num_blocks, as a reader of the v1
\* header might write it; C8 tells it from the loop of the code.
MapLoopCounts(p, st, nb, nblk, count) ==
  p < st + nb /\ (nblk = None \/ count < nblk)

\* The loop condition: reader.pos < start + nbytes.
MapLoopContinues(p, st, nb, nblk, count) == p < st + nb

\* One iteration of the loop: name, ver, size.
MapEntry(d, p) ==
  LET r == ReadFields(d, p, <<"str", "u16", "u32">>)
  IN IF r.ok
     THEN Ok(r.pos, [name |-> r.vals[1], version |-> r.vals[2],
                     size |-> r.vals[3], offset |-> None])
     ELSE Raise(r.pos)

RECURSIVE MapLoop(_, _, _, _, _, _)
MapLoop(d, p, st, nb, nblk, blocks) ==
  IF ~MapLoopContinues(p, st, nb, nblk, Len(blocks))
  THEN [ok |-> TRUE, pos |-> p, blocks |-> blocks]
  ELSE LET e == MapEntry(d, p)
       IN IF ~e.ok THEN [ok |-> FALSE, pos |-> e.pos, blocks |-> blocks]
          ELSE MapLoop(d, e.pos, st, nb, nblk, Append(blocks, e.val))

\* parse_map as a function of the buffer and the cursor.
parse_map(d, p) ==
  LET h == MapHeader(d, p)
  IN IF ~h.ok THEN [ok |-> FALSE, pos |-> h.pos, blocks |-> <<>>]
     ELSE MapLoop(d, h.pos, p, h.vals[2],
                  IF Len(h.vals) = 3 THEN h.vals[3] ELSE None, <<>>)

----------------------------------------------------------------------------
(* Lookup tables                                                           *)

\* FIBER_TYPES.get(fiber_type, f"unknown ({fiber_type})")
FiberTypeName(fiber_type) ==
  CASE fiber_type = 651 -> "G.651 (multimode)"
    [] fiber_type = 652 -> "G.652 (standard SM)"
    [] fiber_type = 653 -> "G.653 (dispersion-shifted)"
    [] fiber_type = 654 -> "G.654 (cut-off shifted)"
    [] fiber_type = 655 -> "G.655 (NZ-DSF)"
    [] fiber_type = 656 -> "G.656 (wideband NZ-DSF)"
    [] fiber_type = 657 -> "G.657 (bend-insensitive)"
    [] OTHER -> "unknown"

\* BUILD_CONDITIONS.get(build_cond, build_cond): "BC", "CC", "RC", "OT".
BuildConditionName(build_cond) ==
  CASE build_cond = <<66, 67>> -> "as-built"
    [] build_cond = <<67, 67>> -> "as-current"
    [] build_cond = <<82, 67>> -> "as-repaired"
    [] build_cond = <<79, 84>> -> "other"
    [] OTHER -> "raw code"

\* TRACE_TYPES.get(trace_type_raw, trace_type_raw): "ST", "RT", "DT", "RF".
TraceTypeName(trace_type_raw) ==
  CASE trace_type_raw = <<83, 84>> -> "standard"
    [] trace_type_raw = <<82, 84>> -> "reverse"
    [] trace_type_raw = <<68, 84>> -> "difference"
    [] trace_type_raw = <<82, 70>> -> "reference"
    [] OTHER -> "raw code"

----------------------------------------------------------------------------
(* Helpers                                                                 *)

\* The largest time_100ps whose product with c fits the model's integers.
MaxExactTime == 2147483647 \div SpeedOfLight

\* _time_to_distance, in millimetres (round(distance, 3) keeps millimetres):
\* time_100ps * 1e-10 * c / (2 * group_index), the group index in units of
\* 1e-5, is time_100ps * c / (200 * group_index) mm, rounded to the nearest.
\* Beyond MaxExactTime, or for a group index whose 200-fold does not fit, the
\* distance is kept as its two operands.
time_to_distance(time_100ps, gi) ==
  LET g == IF gi <= 0 THEN DefaultGroupIndex ELSE gi
  IN IF time_100ps <= MaxExactTime /\ g <= 10000000
     THEN LET num == time_100ps * SpeedOfLight
              den == 200 * g
          IN (num \div den) + (IF 2 * (num % den) > den THEN 1 ELSE 0)
     ELSE [time_100ps |-> time_100ps, group_index |-> g]

\* A description that looks for the launch/tail flag one character further
\* on; C16 tells it from the code's.
describe_event_type_flag_at_7(event_type) ==
  IF Len(event_type) < 2 THEN <<"unknown">>
  ELSE LET first == event_type[1]
           second == event_type[2]
           d1 == CASE first = 48 -> <<"non-reflective">>
                   [] first = 49 -> <<"reflective">>
                   [] first = 50 -> <<"saturated reflective">>
                   [] OTHER -> <<>>
           d2 == CASE second = 70 -> <<"end-of-fiber">>
                   [] second = 65 -> <<"added-by-user">>
                   [] second = 79 -> <<"found-by-OTDR">>
                   [] second = 77 -> <<"moved-by-user">>
                   [] OTHER -> <<>>
           d3 == IF Len(event_type) > 7
                 THEN CASE event_type[8] = 76 -> <<"launch-fiber">>
                        [] event_type[8] = 84 -> <<"tail-fiber">>
                        [] OTHER -> <<>>
                 ELSE <<>>
           descriptions == d1 \o d2 \o d3
       IN IF descriptions # <<>> THEN descriptions ELSE <<"code", event_type>>

\* _describe_event_type: the list of descriptions that ", ".join joins; the
\* code itself when no character is recognised.
describe_event_type(event_type) ==
  IF Len(event_type) < 2 THEN <<"unknown">>
  ELSE LET first == event_type[1]
           second == event_type[2]
           d1 == CASE first = 48 -> <<"non-reflective">>
                   [] first = 49 -> <<"reflective">>
                   [] first = 50 -> <<"saturated reflective">>
                   [] OTHER -> <<>>
           d2 == CASE second = 70 -> <<"end-of-fiber">>
                   [] second = 65 -> <<"added-by-user">>
                   [] second = 79 -> <<"found-by-OTDR">>
                   [] second = 77 -> <<"moved-by-user">>
                   [] OTHER -> <<>>
           d3 == IF Len(event_type) > 6
                 THEN CASE event_type[7] = 76 -> <<"launch-fiber">>
                        [] event_type[7] = 84 -> <<"tail-fiber">>
                        [] OTHER -> <<>>
                 ELSE <<>>
           descriptions == d1 \o d2 \o d3
       IN IF descriptions # <<>> THEN descriptions ELSE <<"code", event_type>>

----------------------------------------------------------------------------
(* Block decoders: (data, pos, version, block_end) to [ok, pos, val].      *)

Decoded(r, fields) == IF r.ok THEN Ok(r.pos, fields) ELSE Raise(r.pos)

parse_sup_params(d, p, ver, block_end) ==
  LET r == ReadFields(d, p, Repeat("str", 7))
      v == r.vals
  IN Decoded(r, [supplier_name |-> v[1], otdr_mainframe_id |-> v[2],
                 otdr_mainframe_sn |-> v[3], optical_module_id |-> v[4],
                 optical_module_sn |-> v[5], software_revision |-> v[6],
                 other |-> v[7]])

\* The fields of GenParams from the values read, in reading order; the
\* v2-only user_offset_distance_01m is the 11th when it is there.
GenFields(v, ver) ==
  [language_code |-> v[1], cable_id |-> v[2], fiber_id |-> v[3],
   fiber_type |-> v[4], fiber_type_name |-> FiberTypeName(v[4]),
   wavelength_nm |-> v[5], location_a |-> v[6], location_b |-> v[7],
   cable_code |-> v[8], build_condition |-> v[9],
   build_condition_name |-> BuildConditionName(v[9]),
   user_offset_100ps |-> v[10],
   operator |-> v[Len(v) - 1], comment |-> v[Len(v)]]
  @@ (IF ver >= V2 THEN [user_offset_distance_01m |-> v[11]] ELSE <<>>)

parse_gen_params(d, p, ver, block_end) ==
  LET r == ReadFields(d, p,
             <<"str", "str", "str", "u16", "u16", "str", "str", "str", "str", "i32">>
             \o (IF ver >= V2 THEN <<"i32">> ELSE <<>>)
             \o <<"str", "str">>)
  IN Decoded(r, GenFields(r.vals, ver))

\* The trace type: version >= 200 and reader.pos + 2 <= block_end.
HasTraceType(p, ver, block_end) == ver >= V2 /\ p + 2 <= block_end

\* The three parallel arrays of FxdParams, each of n elements, read back to
\* back: pulse widths (u16), data spacing (u32), number of data points (u32).
ArraysDone(pw, ds, a) ==
  IF ~a.ok THEN a ELSE [ok |-> TRUE, pos |-> a.pos, vals |-> <<pw, ds, a.vals>>]

ArraysThird(d, n, pw, a) ==
  IF ~a.ok THEN a ELSE ArraysDone(pw, a.vals, ReadArray(d, a.pos, "u32", n, <<>>))

ArraysSecond(d, n, a) ==
  IF ~a.ok THEN a ELSE ArraysThird(d, n, a.vals, ReadArray(d, a.pos, "u32", n, <<>>))

ReadArrays(d, p, n) == ArraysSecond(d, n, ReadArray(d, p, "u16", n, <<>>))

\* The fields of FxdParams: h the values up to num_pulse_widths, a the three
\* arrays, t the values after them, tt the trace type read when it is there.
FixedFields(h, a, t, ver, withTrace, tt) ==
  LET x == SubSeq(t, Len(t) - 6, Len(t))
  IN [timestamp |-> h[1], units_of_distance |-> h[2],
      actual_wavelength_nm |-> h[3], acquisition_offset_100ps |-> h[4],
      num_pulse_widths |-> h[Len(h)], pulse_widths_ns |-> a[1],
      data_spacing_100ps |-> a[2], num_data_points |-> a[3],
      group_index |-> t[1], backscatter_coefficient_dB |-> -t[2],
      number_of_averages |-> t[3], averaging_time_s |-> t[4],
      range_100ps |-> t[5],
      range_km |-> IF t[5] # 0 THEN t[5] ELSE None,
      front_panel_offset_100ps |-> x[1], noise_floor_level |-> x[2],
      noise_floor_scale_factor |-> x[3], power_offset_first_point |-> x[4],
      loss_threshold_dB |-> x[5], reflectance_threshold_dB |-> -x[6],
      end_of_fiber_threshold_dB |-> x[7]]
     @@ (IF h[1] > 0 THEN [datetime |-> h[1]] ELSE <<>>)
     @@ (IF ver >= V2
         THEN [acquisition_offset_distance_01m |-> h[5],
               acquisition_range_distance_01m |-> t[6]]
         ELSE <<>>)
     @@ (IF withTrace
         THEN [trace_type |-> tt, trace_type_name |-> TraceTypeName(tt)]
         ELSE <<>>)

FixedFinish(d, ver, block_end, h, a, t) ==
  IF ~t.ok THEN Raise(t.pos)
  ELSE IF HasTraceType(t.pos, ver, block_end)
  THEN Ok(read_bytes(d, t.pos, 2).pos,
          FixedFields(h, a, t.vals, ver, TRUE, read_bytes(d, t.pos, 2).val))
  ELSE Ok(t.pos, FixedFields(h, a, t.vals, ver, FALSE, <<>>))

FixedAfterArrays(d, ver, block_end, h, a) ==
  IF ~a.ok THEN Raise(a.pos)
  ELSE FixedFinish(d, ver, block_end, h, a.vals,
         ReadFields(d, a.pos,
           <<"u32", "u16", "u32", "u16", "u32">>
           \o (IF ver >= V2 THEN <<"i32">> ELSE <<>>)
           \o <<"i32", "u16", "u16", "u16", "u16", "u16", "u16">>))

FixedAfterCount(d, ver, block_end, h) ==
  IF ~h.ok THEN Raise(h.pos)
  ELSE FixedAfterArrays(d, ver, block_end, h.vals,
                        ReadArrays(d, h.pos, h.vals[Len(h.vals)]))

parse_fixed_params(d, p, ver, block_end) ==
  FixedAfterCount(d, ver, block_end,
    ReadFields(d, p, <<"u32", "str", "u16", "i32">>
                     \o (IF ver >= V2 THEN <<"i32">> ELSE <<>>)
                     \o <<"u16">>))

\* The fields of one event record: v the six values read first, w the five
\* v2-only values, comment the string read last.
EventFields(v, w, comment, ver, gi) ==
  [event_number |-> v[1], time_of_travel_100ps |-> v[2],
   distance_m |-> time_to_distance(v[2], gi),
   slope_dBkm |-> v[3], splice_loss_dB |-> v[4], reflectance_dB |-> v[5],
   event_type |-> v[6],
   event_type_description |-> describe_event_type(v[6]),
   comment |-> comment]
  @@ (IF ver >= V2
      THEN [end_of_previous_event |-> w[1], start_of_current_event |-> w[2],
            end_of_current_event |-> w[3], start_of_next_event |-> w[4],
            peak_of_current_event |-> w[5]]
      ELSE <<>>)

\* One event record of the KeyEvents loop.
ReadEvent(d, p, ver, gi) ==
  LET r == ReadFields(d, p,
             <<"u16", "u32", "i16", "i16", "i32", "str">>
             \o (IF ver >= V2 THEN Repeat("u32", 5) ELSE <<>>)
             \o <<"str">>)
  IN Decoded(r, EventFields(SubSeq(r.vals, 1, 6), SubSeq(r.vals, 7, 11),
                            r.vals[Len(r.vals)], ver, gi))

\* for _ in range(num_events): the events read so far, or the raise.
RECURSIVE ReadEvents(_, _, _, _, _, _)
ReadEvents(d, p, ver, gi, n, events) ==
  IF n = 0 THEN Ok(p, events)
  ELSE LET e == ReadEvent(d, p, ver, gi)
       IN IF ~e.ok THEN Raise(e.pos)
          ELSE ReadEvents(d, e.pos, ver, gi, n - 1, Append(events, e.val))

\* The gates of the trailing summary.
SummaryGate(p, block_end) == p + 4 <= block_end
FiberLength01mGate(p, ver, block_end) == ver >= V2 /\ p + 4 <= block_end
OrlGate(p, block_end) == p + 2 <= block_end

\* The summary after the events, read by read: what the try block has
\* assigned when it ends, by completion or by the struct.error it swallows.
\* f is the fields assigned so far.
SummaryOrl(d, p, block_end, f) ==
  IF ~OrlGate(p, block_end) THEN [pos |-> p, fields |-> f]
  ELSE LET r == read_uint16(d, p)
       IN IF ~r.ok THEN [pos |-> r.pos, fields |-> f]
          ELSE [pos |-> r.pos, fields |-> f @@ [optical_return_loss_dB |-> r.val]]

SummaryLength01m(d, p, ver, block_end, f) ==
  IF ~FiberLength01mGate(p, ver, block_end) THEN SummaryOrl(d, p, block_end, f)
  ELSE LET r == read_int32(d, p)
       IN IF ~r.ok THEN [pos |-> r.pos, fields |-> f]
          ELSE SummaryOrl(d, r.pos, block_end, f @@ [fiber_length_01m |-> r.val])

SummaryLength(d, p, ver, block_end, gi, f) ==
  LET r == read_uint32(d, p)
  IN IF ~r.ok THEN [pos |-> r.pos, fields |-> f]
     ELSE SummaryLength01m(d, r.pos, ver, block_end,
            f @@ [fiber_length_100ps |-> r.val,
                  fiber_length_m |-> time_to_distance(r.val, gi)])

SummaryStart(d, p, ver, block_end, gi, f) ==
  LET r == read_int32(d, p)
  IN IF ~r.ok THEN [pos |-> r.pos, fields |-> f]
     ELSE SummaryLength(d, r.pos, ver, block_end, gi,
                        f @@ [fiber_start_position |-> r.val])

KeySummary(d, p, ver, block_end, gi) ==
  IF ~SummaryGate(p, block_end) THEN [pos |-> p, fields |-> <<>>]
  ELSE LET r == read_uint32(d, p)
       IN IF ~r.ok THEN [pos |-> r.pos, fields |-> <<>>]
          ELSE SummaryStart(d, r.pos, ver, block_end, gi,
                            [total_loss_dB |-> r.val])

KeyEventsFinish(num_events, events, s) ==
  Ok(s.pos, [num_events |-> num_events, events |-> events] @@ s.fields)

KeyEventsAfterEvents(d, ver, block_end, gi, num_events, ev) ==
  IF ~ev.ok THEN Raise(ev.pos)
  ELSE KeyEventsFinish(num_events, ev.val,
                       KeySummary(d, ev.pos, ver, block_end, gi))

KeyEventsAfterCount(d, ver, block_end, gi, r) ==
  IF ~r.ok THEN Raise(r.pos)
  ELSE KeyEventsAfterEvents(d, ver, block_end, gi, r.val,
                            ReadEvents(d, r.pos, ver, gi, r.val, <<>>))

parse_key_events(d, p, ver, block_end, gi) ==
  KeyEventsAfterCount(d, ver, block_end, gi, read_uint16(d, p))

parse_data_pts_summary(d, p, ver, block_end) ==
  LET r == ReadFields(d, p, <<"u32", "u16">>)
  IN Decoded(r, [num_data_points |-> r.vals[1], num_traces |-> r.vals[2],
                 note |-> "Trace data available but not extracted"])

----------------------------------------------------------------------------
(* parse_sor: the steps between the map and the block decoders.            *)

\* Offsets that advance over known blocks only; C6 tells them from the
\* offsets of the code.
RECURSIVE CalcOffsetsKnownOnly(_, _, _)
CalcOffsetsKnownOnly(blocks, i, offset) ==
  IF i > Len(blocks) THEN blocks
  ELSE CalcOffsetsKnownOnly([blocks EXCEPT ![i].offset = offset], i + 1,
         IF blocks[i].name \in {Map, SupParams, GenParams, FxdParams, KeyEvents, DataPts}
         THEN offset + blocks[i].size ELSE offset)

\* offset = 0; for binfo in blocks_info: binfo["offset"] = offset;
\* offset += binfo["size"]
RECURSIVE CalcOffsets(_, _, _)
CalcOffsets(blocks, i, offset) ==
  IF i > Len(blocks) THEN blocks
  ELSE CalcOffsets([blocks EXCEPT ![i].offset = offset], i + 1,
                   offset + blocks[i].size)

\* A lookup that keeps the entry it already has; C5 tells it from the
\* lookup of the code.
StoreFirst(m, binfo) == m @@ (binfo.name :> binfo)

\* block_map[binfo["name"]] = binfo: a later entry replaces an earlier one.
Store(m, binfo) == (binfo.name :> binfo) @@ m

\* for binfo in blocks_info: block_map[binfo["name"]] = binfo
RECURSIVE BuildBlockMap(_, _, _)
BuildBlockMap(blocks, i, m) ==
  IF i > Len(blocks) THEN m
  ELSE BuildBlockMap(blocks, i + 1, Store(m, blocks[i]))

\* A group index taken from the acquisition without the test for > 0; C4
\* tells it from the code's.
DetermineGroupIndexUnchecked(res) ==
  IF "acquisition" \in DOMAIN res /\ "group_index" \in DOMAIN res["acquisition"]
  THEN res["acquisition"]["group_index"]
  ELSE DefaultGroupIndex

\* The group index for the distances: the acquisition's when it is there and
\* > 0 (an {error} sentinel has no group_index), else the default.
DetermineGroupIndex(res) ==
  IF /\ "acquisition" \in DOMAIN res
     /\ "group_index" \in DOMAIN res["acquisition"]
     /\ res["acquisition"]["group_index"] > 0
  THEN res["acquisition"]["group_index"]
  ELSE DefaultGroupIndex

\* {"error": str(e)}
ErrorSentinel == [error |-> "struct.error"]

\* The key a block's result is stored under when its decoder returns or raises.
Recover(r) == IF r.ok THEN r.val ELSE ErrorSentinel

\* A parse that ends at the first block that raises; C1 tells it from the
\* code's.
AfterBlockAbort(r, next) == IF r.ok THEN next ELSE "done"

\* The step after a decoder that raised: the except clause goes on with the
\* next block.
AfterBlock(r, next) == next

----------------------------------------------------------------------------
(* The parse as a state machine.                                           *)

\* parse_map: start = reader.pos; version and nbytes; num_blocks for v1.
ParseMapHeader ==
  /\ pc = "parse_map"
  /\ LET h == MapHeader(data, pos)
     IN /\ start' = pos
        /\ pos' = h.pos
        /\ IF h.ok
           THEN /\ version' = h.vals[1]
                /\ nbytes' = h.vals[2]
                /\ num_blocks' = IF Len(h.vals) = 3 THEN h.vals[3] ELSE None
                /\ pc' = "map_loop"
           ELSE /\ UNCHANGED <<version, nbytes, num_blocks>>
                /\ pc' = "raised"
  /\ UNCHANGED <<data, blocks_info, block_map, result, group_index, calls, returns>>

\* parse_map: one iteration of the while loop.
ParseMapEntry ==
  /\ pc = "map_loop"
  /\ MapLoopContinues(pos, start, nbytes, num_blocks, Len(blocks_info))
  /\ LET e == MapEntry(data, pos)
     IN /\ pos' = e.pos
        /\ IF e.ok
           THEN /\ blocks_info' = Append(blocks_info, e.val)
                /\ pc' = "map_loop"
           ELSE /\ UNCHANGED blocks_info
                /\ pc' = "raised"
  /\ UNCHANGED <<data, start, version, nbytes, num_blocks, block_map, result,
                 group_index, calls, returns>>

\* parse_map: the loop ends and the list is returned.
ParseMapReturn ==
  /\ pc = "map_loop"
  /\ ~MapLoopContinues(pos, start, nbytes, num_blocks, Len(blocks_info))
  /\ pc' = "offsets"
  /\ UNCHANGED <<data, pos, start, version, nbytes, num_blocks, blocks_info,
                 block_map, result, group_index, calls, returns>>

\* Offsets that start at the end of the map block instead of 0; C7 tells
\* them from the code's.
CalculateOffsetsFromNbytes ==
  /\ pc = "offsets"
  /\ blocks_info' = CalcOffsets(blocks_info, 1, nbytes)
  /\ pc' = "result"
  /\ UNCHANGED <<data, pos, start, version, nbytes, num_blocks, block_map,
                 result, group_index, calls, returns>>

\* Calculate byte offsets for each block.
CalculateOffsets ==
  /\ pc = "offsets"
  /\ blocks_info' = CalcOffsets(blocks_info, 1, 0)
  /\ pc' = "result"
  /\ UNCHANGED <<data, pos, start, version, nbytes, num_blocks, block_map,
                 result, group_index, calls, returns>>

\* result = {"filename": ..., "file_size_bytes": ..., "blocks_found": ...}
InitResult ==
  /\ pc = "result"
  /\ result' = [file_size_bytes |-> Len(data),
                blocks_found |-> [i \in DOMAIN blocks_info |-> blocks_info[i].name]]
  /\ pc' = "lookup"
  /\ UNCHANGED <<data, pos, start, version, nbytes, num_blocks, blocks_info,
                 block_map, group_index, calls, returns>>

\* Build quick lookup.
BuildLookup ==
  /\ pc = "lookup"
  /\ block_map' = BuildBlockMap(blocks_info, 1, <<>>)
  /\ pc' = "step2"
  /\ UNCHANGED <<data, pos, start, version, nbytes, num_blocks, blocks_info,
                 result, group_index, calls, returns>>

\* The decoder parse_sor calls for a known block; only parse_key_events takes
\* the group index.
Decode(name, d, p, ver, block_end, gi) ==
  CASE name = SupParams -> parse_sup_params(d, p, ver, block_end)
    [] name = GenParams -> parse_gen_params(d, p, ver, block_end)
    [] name = FxdParams -> parse_fixed_params(d, p, ver, block_end)
    [] name = KeyEvents -> parse_key_events(d, p, ver, block_end, gi)
    [] name = DataPts -> parse_data_pts_summary(d, p, ver, block_end)

\* A step that leaves the key out when its decoder raised; C11 tells it from
\* the code's.
CommitFieldsOnly(name, p0, block_end, r, next) ==
  /\ pos' = r.pos
  /\ result' = IF r.ok THEN (KeyOf(name) :> r.val) @@ result ELSE result
  /\ calls' = Append(calls, [name |-> name, pos |-> p0])
  /\ returns' = Append(returns, [name |-> name, ok |-> r.ok, pos |-> r.pos,
                                 block_end |-> block_end])
  /\ pc' = AfterBlock(r, next)

\* What a step does with its decoder's outcome r: the fields or the {error}
\* sentinel go under the block's key, and the parse goes on.
Commit(name, p0, block_end, r, next) ==
  /\ pos' = r.pos
  /\ result' = (KeyOf(name) :> Recover(r)) @@ result
  /\ calls' = Append(calls, [name |-> name, pos |-> p0])
  /\ returns' = Append(returns, [name |-> name, ok |-> r.ok, pos |-> r.pos,
                                 block_end |-> block_end])
  /\ pc' = AfterBlock(r, next)

\* The call of a block's decoder: seek to its offset, then decode with
\* block_end = offset + size.
SeekAndDecode(name, binfo, next) ==
  Commit(name, seek(binfo.offset), binfo.offset + binfo.size,
         Decode(name, data, seek(binfo.offset), binfo.version,
                binfo.offset + binfo.size, group_index),
         next)

\* One of steps 2 to 6: if the name is in block_map, seek to the block and
\* run its decoder inside try/except.
DecodeStep(name, here, next) ==
  /\ pc = here
  /\ IF name \in DOMAIN block_map
     THEN SeekAndDecode(name, block_map[name], next)
     ELSE /\ UNCHANGED <<pos, result, calls, returns>>
          /\ pc' = next
  /\ UNCHANGED <<data, start, version, nbytes, num_blocks, blocks_info,
                 block_map, group_index>>

Step2SupParams == DecodeStep(SupParams, "step2", "step3")

Step3GenParams == DecodeStep(GenParams, "step3", "step4")

\* A step 4 that looks up KeyEvents; C3 tells it from the code's.
Step4DecodesKeyEvents == DecodeStep(KeyEvents, "step4", "group_index")

Step4FxdParams == DecodeStep(FxdParams, "step4", "group_index")

\* Determine group index for distance calculations.
SetGroupIndex ==
  /\ pc = "group_index"
  /\ group_index' = DetermineGroupIndex(result)
  /\ pc' = "step5"
  /\ UNCHANGED <<data, pos, start, version, nbytes, num_blocks, blocks_info,
                 block_map, result, calls, returns>>

Step5KeyEvents == DecodeStep(KeyEvents, "step5", "step6")

Step6DataPts == DecodeStep(DataPts, "step6", "done")

Next ==
  \/ ParseMapHeader
  \/ ParseMapEntry
  \/ ParseMapReturn
  \/ CalculateOffsets
  \/ InitResult
  \/ BuildLookup
  \/ Step2SupParams
  \/ Step3GenParams
  \/ Step4FxdParams
  \/ SetGroupIndex
  \/ Step5KeyEvents
  \/ Step6DataPts

\* The state after reader = SORReader(data), for an input buffer.
InitWith(buffer) ==
  /\ data = buffer
  /\ pos = 0
  /\ pc = "parse_map"
  /\ start = None
  /\ version = None
  /\ nbytes = None
  /\ num_blocks = None
  /\ blocks_info = <<>>
  /\ block_map = <<>>
  /\ result = <<>>
  /\ group_index = None
  /\ calls = <<>>
  /\ returns = <<>>

----------------------------------------------------------------------------
(* Input buffers.  A buffer is written the way the decoders read it: a map *)
(* followed by the bodies of the blocks the map lists, in map order.  The  *)
(* parameters below vary what the map declares against what the buffer     *)
(* holds.                                                                  *)

LE16(n) == <<n % 256, (n \div 256) % 256>>
LE32(n) == <<n % 256, (n \div 256) % 256, (n \div 65536) % 256,
             (n \div 16777216) % 256>>
CStr(str) == str \o <<0>>

RECURSIVE Concat(_)
Concat(seqs) == IF seqs = <<>> THEN <<>> ELSE Head(seqs) \o Concat(Tail(seqs))

RECURSIVE Sum(_)
Sum(ns) == IF ns = <<>> THEN 0 ELSE Head(ns) + Sum(Tail(ns))

Prefix(d, n) == IF n <= 0 THEN <<>> ELSE IF n >= Len(d) THEN d ELSE SubSeq(d, 1, n)

\* Every byte of an input is below 128, so that any four bytes a decoder
\* reads as an unsigned 32-bit value fit the integers of the model.  The
\* versions the inputs declare: one below 200 and one at or above it.
Versions == {100, 256}

\* Bounds of the inputs.
MaxEvents == 2
MaxTail == 18
MaxCutSteps == 4
MaxPulseWidths == 1

\* An unknown block name ("Xtra") and a known one in lower case.
Xtra == <<88, 116, 114, 97>>
LowerSupParams == <<115, 117, 112, 112, 97, 114, 97, 109, 115>>

NameOf(kind) ==
  CASE kind = "Map" -> Map
    [] kind = "Sup" -> SupParams
    [] kind = "Gen" -> GenParams
    [] kind \in {"Fxd", "Fxd2"} -> FxdParams
    [] kind = "Key" -> KeyEvents
    [] kind = "Data" -> DataPts
    [] kind = "Xtra" -> Xtra
    [] kind = "sup" -> LowerSupParams

SupBody == Concat(<<CStr(<<65, 66>>), CStr(<<>>), CStr(<<83>>), CStr(<<>>),
                    CStr(<<>>), CStr(<<49>>), CStr(<<>>)>>)

GenBody(ver) ==
  Concat(<<CStr(<<69, 78>>), CStr(<<67>>), CStr(<<>>), LE16(600), LE16(1550),
           CStr(<<>>), CStr(<<66>>), CStr(<<>>), CStr(<<66, 67>>), LE32(5),
           IF ver >= V2 THEN LE32(1) ELSE <<>>,
           CStr(<<>>), CStr(<<>>)>>)

FxdBody(ver, gi, npw) ==
  Concat(<<LE32(1100), CStr(<<109, 116>>), LE16(1550), LE32(0),
           IF ver >= V2 THEN LE32(0) ELSE <<>>,
           LE16(npw),
           Concat([i \in 1..npw |-> LE16(10 * i)]),
           Concat([i \in 1..npw |-> LE32(25)]),
           Concat([i \in 1..npw |-> LE32(4)]),
           LE32(gi), LE16(800), LE32(16), LE16(3), LE32(7),
           IF ver >= V2 THEN LE32(2) ELSE <<>>,
           LE32(0), LE16(1), LE16(1100), LE16(0), LE16(100), LE16(24848),
           LE16(2880),
           IF ver >= V2 THEN <<83, 84>> ELSE <<>>>>)

\* Event codes: "1F9999LS", "0O", "2", "9A9999T".
EventCodes ==
  <<<<49, 70, 57, 57, 57, 57, 76, 83>>, <<48, 79>>, <<50>>,
    <<57, 65, 57, 57, 57, 57, 84>>>>

EventBody(ver, i, time) ==
  Concat(<<LE16(i), LE32(time), LE16(120), LE16(100), LE32(0),
           CStr(EventCodes[1 + (i % Len(EventCodes))]),
           IF ver >= V2 THEN Concat(<<LE32(0), LE32(1), LE32(2), LE32(3), LE32(1)>>)
                        ELSE <<>>,
           CStr(<<>>)>>)

\* The trailing summary, whole (total loss, start, length, length in 0.1 m,
\* ORL), and bytes after it.
SummaryBody ==
  Concat(<<LE32(1380), LE32(0), LE32(6), LE32(12), LE16(30000), <<5, 5, 5, 5>>>>)

KeyBody(ver, times, tail) ==
  Concat(<<LE16(Len(times)),
           Concat([i \in DOMAIN times |-> EventBody(ver, i, times[i])]),
           Prefix(SummaryBody, tail)>>)

\* Two header fields and four bytes of samples.
DataBody == Concat(<<LE32(4), LE16(1), <<9, 9, 9, 9>>>>)

XtraBody == <<7, 7, 7>>

VersionOf(kind, c) ==
  IF kind = "Fxd2" THEN (IF c.bv >= V2 THEN 100 ELSE 256) ELSE c.bv

BodyOf(kind, c) ==
  CASE kind = "Map" -> <<>>
    [] kind \in {"Sup", "sup"} -> SupBody
    [] kind = "Gen" -> GenBody(c.bv)
    [] kind = "Fxd" -> FxdBody(c.bv, c.gi, c.npw)
    [] kind = "Fxd2" -> FxdBody(VersionOf(kind, c), 151808, c.npw)
    [] kind = "Key" -> KeyBody(c.bv, c.times, c.tail)
    [] kind = "Data" -> DataBody
    [] kind = "Xtra" -> XtraBody

\* The length of the map block: the header and one entry per name.
MapLen(c) ==
  6 + (IF c.mv < V2 THEN 2 ELSE 0)
    + Sum([i \in DOMAIN c.layout |-> Len(NameOf(c.layout[i])) + 7])

\* The size entry i declares: the length of its body (of the map, for the
\* map's own entry), changed by what the parameters say.
DeclaredSize(c, i) ==
  LET kind == c.layout[i]
      actual == IF kind = "Map" THEN MapLen(c) ELSE Len(BodyOf(kind, c))
      size == actual + (IF kind = "Map" THEN c.mapSizeDelta ELSE 0)
                     - (IF c.shrink = i THEN c.shrinkBy ELSE 0)
  IN IF size < 0 THEN 0 ELSE size

\* The nbytes the map declares.
DeclaredNbytes(c) ==
  CASE c.nbytes = "exact" -> MapLen(c)
    [] c.nbytes = "zero" -> 0
    [] c.nbytes = "header" -> 4
    [] c.nbytes = "short" -> MapLen(c) - 3
    [] c.nbytes = "over" -> MapLen(c) + 2
    [] c.nbytes = "huge" -> MapLen(c) + 8192

MapBytes(c) ==
  Concat(<<LE16(c.mv), LE32(DeclaredNbytes(c)),
           IF c.mv < V2 THEN LE16(c.nblk) ELSE <<>>,
           Concat([i \in DOMAIN c.layout |->
                     Concat(<<CStr(NameOf(c.layout[i])),
                              LE16(VersionOf(c.layout[i], c)),
                              LE32(DeclaredSize(c, i))>>)])>>)

WholeFile(c) ==
  MapBytes(c) \o Concat([i \in DOMAIN c.layout |-> BodyOf(c.layout[i], c)])

\* The buffer: the file, cut c.cut bytes before its end.
Buffer(c) == LET f == WholeFile(c) IN Prefix(f, Len(f) - c.cut)

\* The orders the blocks are listed (and laid out) in.
Layouts ==
  { <<"Map", "Gen", "Sup", "Fxd", "Key", "Data">>,
    <<"Map", "Key", "Data", "Gen", "Sup", "Fxd">>,
    <<"Map">>,
    <<"Map", "Sup", "Xtra", "Fxd", "Key">>,
    <<"Map", "Fxd", "Key", "Fxd2">>,
    <<"Map", "sup", "Data", "Key">>,
    <<"Sup", "Key">> }

\* How many bytes the buffer is cut short by.
Cuts == {0, 1, 70} \cup {3 * i : i \in 1..MaxCutSteps}

GroupIndexes == {0, 147200, 160000}

\* A well-formed v2 file with one event, and the families of inputs that
\* vary it.
Plain ==
  [mv |-> 256, bv |-> 256, nblk |-> 0,
   layout |-> <<"Map", "Gen", "Sup", "Fxd", "Key", "Data">>,
   nbytes |-> "exact", mapSizeDelta |-> 0, shrink |-> 0, shrinkBy |-> 0,
   cut |-> 0, gi |-> 147200, npw |-> MaxPulseWidths,
   times |-> <<1>>, tail |-> MaxTail]

\* Block order, block version, group index, truncation.
InputsA ==
  { [Plain EXCEPT !.layout = l, !.bv = bv, !.gi = gi, !.cut = cut] :
      l \in Layouts, bv \in Versions, gi \in GroupIndexes, cut \in Cuts }

\* What the map declares: version, num_blocks, nbytes, its own size.
InputsB ==
  { [Plain EXCEPT !.layout = l, !.mv = mv, !.nblk = nblk, !.nbytes = nb,
                  !.mapSizeDelta = md, !.cut = cut] :
      l \in Layouts, mv \in Versions, nblk \in {0, 1, 6},
      nb \in {"exact", "zero", "header", "short", "over", "huge"},
      md \in {0, 1}, cut \in {0, 70} }

\* A block whose declared size is smaller than its body.
InputsC ==
  { [Plain EXCEPT !.layout = l, !.bv = bv, !.shrink = i, !.shrinkBy = by] :
      l \in Layouts, bv \in Versions, i \in 1..6, by \in {1, 5, 8, 1000} }

\* The events and the trailing summary of KeyEvents.
InputsD ==
  { [Plain EXCEPT !.bv = bv, !.gi = gi, !.times = t, !.tail = tail,
                  !.layout = <<"Map", "Fxd", "Data", "Key">>] :
      bv \in Versions, gi \in {0, 160000}, tail \in 0..MaxTail,
      t \in UNION { [1..n -> {0, 1, 7}] : n \in 0..MaxEvents } }

Inputs == InputsA \cup InputsB \cup InputsC \cup InputsD

Init == \E c \in Inputs : InitWith(Buffer(c))

Spec == Init /\ [][Next]_vars

----------------------------------------------------------------------------
(* Definitions the properties share.                                       *)

\* Where the parse stands: the map is parsed, offsets are set, the lookup is
\* built, the group index is determined.
AfterMap == {"offsets", "result", "lookup", "step2", "step3", "step4",
             "group_index", "step5", "step6", "done"}
AfterOffsets == AfterMap \ {"offsets"}
AfterLookup == AfterOffsets \ {"result", "lookup"}
AfterGroupIndex == {"step5", "step6", "done"}

\* The place of a known name in the processing order.
OrderOf(name) == CHOOSE i \in DOMAIN KnownOrder : KnownOrder[i] = name

KnownNames == {KnownOrder[i] : i \in DOMAIN KnownOrder}

\* The map entries that carry a name.
EntriesNamed(name) == {i \in DOMAIN blocks_info : blocks_info[i].name = name}
FirstEntry(name) == CHOOSE i \in EntriesNamed(name) : \A j \in EntriesNamed(name) : i <= j
LastEntry(name) == CHOOSE i \in EntriesNamed(name) : \A j \in EntriesNamed(name) : i >= j

\* The sizes of the first n map entries.
SizesBefore(n) == [i \in 1..n |-> blocks_info[i].size]

\* The decoder's outcome for a block was a raise.
Failed(name) == \E i \in DOMAIN returns : returns[i].name = name /\ ~returns[i].ok
Succeeded(name) == \E i \in DOMAIN returns : returns[i].name = name /\ returns[i].ok

\* What a known block decodes to on its own: its decoder started on the
\* buffer at the block's offset, whatever the other blocks did.
OnItsOwn(name) ==
  LET b == block_map[name]
  IN Recover(Decode(name, data, b.offset, b.version, b.offset + b.size, group_index))

----------------------------------------------------------------------------
(* C1.  When the decoder of a known block raises, the block's key holds    *)
(* exactly {error: message}, every other known block that is present is    *)
(* still decoded, and each block's value is what its decoder yields on its *)
(* own (KeyEvents with the default group index when FxdParams failed).     *)
C1_ErrorIsLocal ==
  pc = "done" =>
    \A name \in KnownNames \cap DOMAIN block_map :
      /\ KeyOf(name) \in DOMAIN result
      /\ Failed(name) => result[KeyOf(name)] = [error |-> "struct.error"]
      /\ result[KeyOf(name)] = OnItsOwn(name)
      /\ (name = KeyEvents /\ Failed(FxdParams)) => group_index = DefaultGroupIndex

\* A block raised and a block handled after it decoded to fields.
C1_Witness ==
  /\ pc = "done"
  /\ \E i, j \in DOMAIN returns : i < j /\ ~returns[i].ok /\ returns[j].ok

(* C2.  For every block decoded without error, the cursor at the decoder's *)
(* return is <= offset + size of the block.                                *)
C2_WithinBlock ==
  \A i \in DOMAIN returns : returns[i].ok => returns[i].pos <= returns[i].block_end

(* C3.  The decoders run in the order SupParams, GenParams, FxdParams,     *)
(* KeyEvents, DataPts, absent blocks skipped, whatever the order in the    *)
(* map; each starts with the cursor at its block's offset; KeyEvents never *)
(* runs before FxdParams has run or was found absent.                      *)
C3_FixedOrder ==
  /\ \A i, j \in DOMAIN calls :
       i < j => OrderOf(calls[i].name) < OrderOf(calls[j].name)
  /\ \A i \in DOMAIN calls :
       /\ calls[i].name \in DOMAIN block_map
       /\ calls[i].pos = block_map[calls[i].name].offset
       /\ (calls[i].name = KeyEvents /\ FxdParams \in DOMAIN block_map)
            => \E j \in 1..(i - 1) : calls[j].name = FxdParams
  /\ pc = "done" =>
       {calls[i].name : i \in DOMAIN calls} = KnownNames \cap DOMAIN block_map

\* The map lists KeyEvents before FxdParams, at a lower offset, and both ran.
C3_Witness ==
  /\ pc = "done"
  /\ KeyEvents \in DOMAIN block_map /\ FxdParams \in DOMAIN block_map
  /\ FirstEntry(KeyEvents) < FirstEntry(FxdParams)
  /\ block_map[KeyEvents].offset < block_map[FxdParams].offset
  /\ Succeeded(KeyEvents) /\ Succeeded(FxdParams)

\* The group index FxdParams holds in the buffer, when the block is there,
\* decodes and holds one > 0; else none.
FxdGroupIndex ==
  IF FxdParams \in DOMAIN block_map
  THEN LET b == block_map[FxdParams]
           r == parse_fixed_params(data, b.offset, b.version, b.offset + b.size)
       IN IF r.ok /\ r.val.group_index > 0 THEN r.val.group_index ELSE None
  ELSE None

\* A distance the model holds as a number of millimetres.
IsExact(e) == e.time_of_travel_100ps <= MaxExactTime /\ group_index <= 10000000

(* C4.  The group index given to parse_key_events is the one decoded from  *)
(* FxdParams when that block is present, decoded without error and holds a *)
(* group index > 0, and 1.46850 in every other case; every event distance  *)
(* is computed from it, so with the default an event with time of travel   *)
(* > 0 has a distance that is not zero.                                    *)
C4_GroupIndex ==
  pc \in AfterGroupIndex =>
    /\ group_index = (IF FxdGroupIndex # None THEN FxdGroupIndex
                                              ELSE DefaultGroupIndex)
    /\ Succeeded(KeyEvents) =>
         \A i \in DOMAIN result["key_events"]["events"] :
           LET e == result["key_events"]["events"][i]
           IN /\ e.distance_m = time_to_distance(e.time_of_travel_100ps, group_index)
              /\ (group_index = DefaultGroupIndex /\ IsExact(e)
                  /\ e.time_of_travel_100ps > 0) => e.distance_m > 0

\* FxdParams decoded a raw group index of 0 and KeyEvents decoded an event
\* with a time of travel > 0.
C4_Witness ==
  /\ pc = "done"
  /\ Succeeded(FxdParams) /\ result["acquisition"]["group_index"] = 0
  /\ group_index = DefaultGroupIndex
  /\ Succeeded(KeyEvents)
  /\ \E i \in DOMAIN result["key_events"]["events"] :
       /\ result["key_events"]["events"][i].time_of_travel_100ps = 1
       /\ result["key_events"]["events"][i].distance_m = 10

(* C5 as stated.  When the map lists a block name more than once, the     *)
(* lookup keeps the first occurrence: the block decoded for that name uses *)
(* the version, size and offset of the earliest map entry with that name.  *)
C5_KeepsFirst ==
  pc \in AfterLookup =>
    \A name \in DOMAIN block_map : block_map[name] = blocks_info[FirstEntry(name)]

(* C5 as amended.  When the map lists a block name more than once, the     *)
(* lookup keeps the last occurrence: every name of the map is in the       *)
(* lookup with the version, size and offset of the latest map entry with   *)
(* that name, and the decoder for that name starts at that entry's offset. *)
C5_KeepsLast ==
  pc \in AfterLookup =>
    /\ DOMAIN block_map = {blocks_info[i].name : i \in DOMAIN blocks_info}
    /\ \A name \in DOMAIN block_map : block_map[name] = blocks_info[LastEntry(name)]
    /\ \A i \in DOMAIN calls :
         calls[i].pos = blocks_info[LastEntry(calls[i].name)].offset

\* The map lists FxdParams twice, with different versions, sizes and
\* offsets, and the block was decoded.
C5_Witness ==
  /\ pc = "done"
  /\ FxdParams \in DOMAIN block_map
  /\ FirstEntry(FxdParams) # LastEntry(FxdParams)
  /\ blocks_info[FirstEntry(FxdParams)].version # blocks_info[LastEntry(FxdParams)].version
  /\ blocks_info[FirstEntry(FxdParams)].size # blocks_info[LastEntry(FxdParams)].size
  /\ Succeeded(FxdParams)

(* C6.  The offset of the i-th map entry is the sum of the sizes of the    *)
(* entries before it in map order, 0 for the first; unknown names take     *)
(* part in the sum like known ones.                                        *)
C6_PrefixSums ==
  pc \in AfterOffsets =>
    \A i \in DOMAIN blocks_info :
      blocks_info[i].offset = Sum(SizesBefore(i - 1))

\* An unknown name with a size > 0 comes before a known block in the map.
C6_Witness ==
  /\ pc \in AfterOffsets
  /\ \E i, j \in DOMAIN blocks_info :
       /\ i < j
       /\ blocks_info[i].name \notin KnownNames \cup {Map}
       /\ blocks_info[i].size > 0
       /\ blocks_info[j].name \in KnownNames
       /\ blocks_info[j].offset > blocks_info[i].offset

(* C7 as stated.  The offset of the first block after the map's own entry  *)
(* is the map's declared nbytes, and each later block's offset is the      *)
(* previous offset plus the previous size.                                 *)
C7_FirstOffsetIsNbytes ==
  (pc \in AfterOffsets /\ Len(blocks_info) >= 2) =>
    /\ blocks_info[2].offset = nbytes
    /\ \A i \in 2..(Len(blocks_info) - 1) :
         blocks_info[i + 1].offset = blocks_info[i].offset + blocks_info[i].size

(* C7 as amended.  The offset of the second map entry is the size the      *)
(* first entry declares, so it is the map's declared nbytes exactly when   *)
(* the first entry declares nbytes as its size; each later entry's offset  *)
(* is the previous offset plus the previous size.                          *)
C7_FirstOffsetIsFirstSize ==
  (pc \in AfterOffsets /\ Len(blocks_info) >= 2) =>
    /\ blocks_info[2].offset = blocks_info[1].size
    /\ (blocks_info[2].offset = nbytes) <=> (blocks_info[1].size = nbytes)
    /\ \A i \in 2..(Len(blocks_info) - 1) :
         blocks_info[i + 1].offset = blocks_info[i].offset + blocks_info[i].size

\* A map whose own entry declares nbytes as its size, with blocks after it.
C7_Witness ==
  /\ pc \in AfterOffsets
  /\ Len(blocks_info) >= 3
  /\ blocks_info[1].name = Map
  /\ blocks_info[1].size = nbytes
  /\ blocks_info[2].offset = nbytes

\* The buffer with the bytes at positions 6 and 7, the num_blocks field of a
\* v1 map, replaced by n.
WithNumBlocks(d, n) ==
  [i \in DOMAIN d |-> IF i = 7 THEN n % 256 ELSE IF i = 8 THEN n \div 256 ELSE d[i]]

\* The length of the entries read so far: each a name, its NUL, and 6 bytes.
EntriesLen == Sum([i \in DOMAIN blocks_info |-> Len(blocks_info[i].name) + 7])

(* C8.  parse_map reads an entry exactly while pos < start + nbytes.  The  *)
(* num_blocks of a v1 map is consumed (the entries start 8 bytes into the  *)
(* map) and does not decide how many entries are read: any other value in  *)
(* the field gives the same list.  A v2 map has no such field (the entries *)
(* start 6 bytes in).                                                      *)
C8_NbytesEndsTheLoop ==
  /\ pc \in {"map_loop", "offsets"} =>
       /\ pos = start + (IF version < V2 THEN 8 ELSE 6) + EntriesLen
       /\ (version < V2) <=> (num_blocks # None)
       /\ blocks_info # <<>> =>
            pos - (Len(blocks_info[Len(blocks_info)].name) + 7) < start + nbytes
  /\ pc = "offsets" =>
       /\ pos >= start + nbytes
       /\ version < V2 =>
            \A n \in {0, 1, Len(blocks_info) + 1} :
              parse_map(WithNumBlocks(data, n), 0).blocks = blocks_info

\* A v1 map that declares no block and lists several.
C8_Witness ==
  /\ pc = "offsets"
  /\ version < V2
  /\ num_blocks = 0
  /\ Len(blocks_info) >= 3

\* The map of the buffer is malformed: nbytes is larger than the buffer or
\* smaller than the map header, or the last entry read ends past
\* start + nbytes.
MalformedMap ==
  \/ nbytes > Len(data)
  \/ nbytes < (IF version < V2 THEN 8 ELSE 6)
  \/ start + (IF version < V2 THEN 8 ELSE 6) + EntriesLen > start + nbytes

(* C9.  A malformed map is fatal: parse_sor raises and returns no record.  *)
C9_MalformedMapIsFatal ==
  pc \in AfterMap => ~MalformedMap

(* C10.  In every record parse_sor returns, every block descriptor has     *)
(* offset < file_size_bytes and offset + size <= file_size_bytes.          *)
C10_BlocksInsideFile ==
  pc = "done" =>
    \A i \in DOMAIN blocks_info :
      /\ blocks_info[i].offset < result["file_size_bytes"]
      /\ blocks_info[i].offset + blocks_info[i].size <= result["file_size_bytes"]

\* The name occurs in the blocks_found list of the record.
Found(name) ==
  \E i \in DOMAIN result["blocks_found"] : result["blocks_found"][i] = name

(* C11.  In the record parse_sor returns, the key of a known block is      *)
(* present exactly when its name, compared byte for byte, is in            *)
(* blocks_found; a key that is present holds the fields its decoder yields *)
(* or the {error} sentinel; the record has no other key than these and     *)
(* file_size_bytes and blocks_found.                                       *)
C11_KeysMatchBlocks ==
  pc = "done" =>
    /\ \A name \in KnownNames :
         /\ (KeyOf(name) \in DOMAIN result) <=> Found(name)
         /\ Found(name) =>
              /\ result[KeyOf(name)] = OnItsOwn(name)
              /\ \/ Failed(name) /\ result[KeyOf(name)] = ErrorSentinel
                 \/ Succeeded(name) /\ "error" \notin DOMAIN result[KeyOf(name)]
    /\ DOMAIN result \subseteq
         {"file_size_bytes", "blocks_found"} \cup {KeyOf(name) : name \in KnownNames}

\* The map lists "supparams" in lower case and no GenParams: neither key is
\* in the record, DataPts decoded to fields and KeyEvents is in the record.
C11_Witness ==
  /\ pc = "done"
  /\ Found(LowerSupParams) /\ ~Found(SupParams) /\ ~Found(GenParams)
  /\ "equipment" \notin DOMAIN result /\ "general" \notin DOMAIN result
  /\ Succeeded(DataPts) /\ result["data_points"]["num_data_points"] = 4
  /\ "key_events" \in DOMAIN result

\* The KeyEvents block as parse_sor hands it to its decoder, and the outcome
\* of the count and the events loop: the cursor is where the summary starts.
KeyBlock == block_map[KeyEvents]
KeyBlockEnd == KeyBlock.offset + KeyBlock.size
AfterEvents ==
  LET n == read_uint16(data, KeyBlock.offset)
  IN IF n.ok
     THEN ReadEvents(data, n.pos, KeyBlock.version, group_index, n.val, <<>>)
     ELSE Raise(n.pos)

\* The cursor at the return of the decoder of a block.
ReturnPos(name) ==
  LET i == CHOOSE i \in DOMAIN returns : returns[i].name = name
  IN returns[i].pos

(* C12.  After the last event of KeyEvents (also with no event) the        *)
(* summary never raises; total_loss_dB, fiber_start_position and           *)
(* fiber_length_100ps are read only if the three fit in the block,         *)
(* fiber_length_01m only for v2 with 4 more bytes in the block,            *)
(* optical_return_loss_dB only with 2 more bytes in the block; no byte at  *)
(* or beyond block_end is read.                                            *)
C12_SummaryInsideBlock ==
  (pc \in {"step6", "done"} /\ KeyEvents \in DOMAIN block_map /\ AfterEvents.ok) =>
    LET rec == result["key_events"]
        p == AfterEvents.pos
    IN /\ Succeeded(KeyEvents)
       /\ "total_loss_dB" \in DOMAIN rec => p + 12 <= KeyBlockEnd
       /\ "fiber_length_01m" \in DOMAIN rec =>
            KeyBlock.version >= V2 /\ p + 16 <= KeyBlockEnd
       /\ "optical_return_loss_dB" \in DOMAIN rec => ReturnPos(KeyEvents) <= KeyBlockEnd
       /\ ReturnPos(KeyEvents) = p \/ ReturnPos(KeyEvents) <= KeyBlockEnd

\* The well-formed files among the inputs: the map comes first and lists
\* itself, every declared size is the length of the body, nothing is cut.
WellFormedFiles == {c \in InputsA : c.cut = 0 /\ c.layout[1] = "Map"}

\* The buffer is the file of c cut short somewhere after the map.
IsTruncationOf(c) ==
  /\ MapLen(c) <= Len(data)
  /\ Len(data) < Len(WholeFile(c))
  /\ data = Prefix(WholeFile(c), Len(data))

\* The group index parse_sor determines on the whole file of c.
FullGroupIndex(c) ==
  IF FxdParams \in DOMAIN block_map
  THEN LET b == block_map[FxdParams]
       IN DetermineGroupIndex(
            [acquisition |-> Recover(parse_fixed_params(WholeFile(c), b.offset,
                                       b.version, b.offset + b.size))])
  ELSE DefaultGroupIndex

\* The outcome of a block's decoder on the whole file of c.
DecodeInFull(c, name) ==
  LET b == block_map[name]
  IN Decode(name, WholeFile(c), b.offset, b.version, b.offset + b.size,
            FullGroupIndex(c))

(* C13.  When the buffer is a well-formed file cut short after the map, a  *)
(* known block that starts at or beyond the end of the buffer gets the     *)
(* {error} sentinel; the block the cut falls in gets {error} unless the    *)
(* fields its decoder reads end before the cut; a block that ends at or    *)
(* before the cut decodes to the fields it has in the whole file.          *)
C13_TruncationIsLocal ==
  pc = "done" =>
    \A c \in WellFormedFiles :
      IsTruncationOf(c) =>
        \A name \in KnownNames \cap DOMAIN block_map :
          LET b == block_map[name]
              got == result[KeyOf(name)]
              full == DecodeInFull(c, name)
          IN /\ b.offset >= Len(data) => got = ErrorSentinel
             /\ (b.offset < Len(data) /\ Len(data) < b.offset + b.size) =>
                  got = (IF full.pos <= Len(data) THEN Recover(full)
                                                   ELSE ErrorSentinel)
             /\ b.offset + b.size <= Len(data) => got = Recover(full)

\* There is a NUL at or after position p of the buffer.
HasNul(d, p) == \E i \in p..(Len(d) - 1) : Byte(d, i) = 0

(* C14.  In every state of a parse the cursor is inside the buffer,        *)
(* 0 <= pos <= len(data); and where the next read is the read_string of a  *)
(* map entry's name, it leaves the cursor one past the NUL terminator, or  *)
(* exactly at the end of the buffer when there is no terminator.           *)
C14_CursorInBuffer ==
  /\ 0 <= pos /\ pos <= Len(data)
  /\ (pc = "map_loop"
      /\ MapLoopContinues(pos, start, nbytes, num_blocks, Len(blocks_info))) =>
       read_string(data, pos).pos =
         (IF HasNul(data, pos) THEN IndexOfNul(data, pos) + 1 ELSE Len(data))

----------------------------------------------------------------------------
(* The byte cursor on its own: a SORReader over a small buffer, and any    *)
(* sequence of its operations.  A read that raises leaves the reader       *)
(* usable, as parse_sor uses it after an except clause.  returns holds the *)
(* last operation: its name, its width n, the cursor before and after, and *)
(* the outcome.                                                            *)

\* Bounds of the buffers and of the operations' arguments.
MaxBufLen == 5
MaxReadBytes == 3
MaxPos == 8

ReaderBuffers == UNION {[1..n -> {0, 65, 127}] : n \in 0..MaxBufLen}

ReaderInit ==
  /\ \E b \in ReaderBuffers : data = b
  /\ pos = 0
  /\ pc = "reader"
  /\ start = None /\ version = None /\ nbytes = None /\ num_blocks = None
  /\ blocks_info = <<>> /\ block_map = <<>> /\ result = <<>>
  /\ group_index = None /\ calls = <<>> /\ returns = <<>>

\* One operation of width n whose outcome is r.
ReaderStep(op, n, r) ==
  /\ pc = "reader"
  /\ pos' = r.pos
  /\ returns' = <<[op |-> op, n |-> n, from |-> pos, ok |-> r.ok,
                   pos |-> r.pos, val |-> r.val]>>
  /\ UNCHANGED <<data, pc, start, version, nbytes, num_blocks, blocks_info,
                 block_map, result, group_index, calls>>

ReadUint16 == ReaderStep("u16", 2, read_uint16(data, pos))
ReadUint32 == ReaderStep("u32", 4, read_uint32(data, pos))
ReadInt16 == ReaderStep("i16", 2, read_int16(data, pos))
ReadInt32 == ReaderStep("i32", 4, read_int32(data, pos))
ReadString == ReaderStep("str", 0, read_string(data, pos))

ReadBytes ==
  \E n \in 0..MaxReadBytes :
    /\ pos + n <= MaxPos
    /\ ReaderStep("bytes", n, read_bytes(data, pos, n))

Seek == \E p \in 0..MaxPos : ReaderStep("seek", 0, Ok(seek(p), None))

ReaderNext ==
  \/ ReadUint16
  \/ ReadUint32
  \/ ReadInt16
  \/ ReadInt32
  \/ ReadString
  \/ ReadBytes
  \/ Seek

ReaderSpec == ReaderInit /\ [][ReaderNext]_vars

\* The value of a fixed-width read is worth the n bytes at the cursor: the
\* bytes themselves for read_bytes, their little-endian number otherwise.
WorthItsBytes(r) ==
  LET bytes == SubSeq(data, r.from + 1, r.from + r.n)
  IN CASE r.op = "bytes" -> r.val = bytes
       [] r.op \in {"u16", "i16"} -> LE16(r.val) = bytes
       [] r.op \in {"u32", "i32"} -> LE32(r.val) = bytes

(* C15.  A fixed-width read (read_uint16, read_uint32, read_int16,         *)
(* read_int32, read_bytes(n)) with at least that many bytes left advances  *)
(* the cursor by exactly the width and returns the value of those bytes;   *)
(* with fewer bytes left it fails and leaves the cursor where it was.      *)
C15_FixedWidthReads ==
  \A i \in DOMAIN returns :
    LET r == returns[i]
    IN r.op \in {"u16", "u32", "i16", "i32", "bytes"} =>
         IF r.from + r.n <= Len(data)
         THEN r.ok /\ r.pos = r.from + r.n /\ WorthItsBytes(r)
         ELSE ~r.ok /\ r.pos = r.from

----------------------------------------------------------------------------
(* _describe_event_type on its own: event type codes are described one     *)
(* after the other; calls holds the codes and returns their descriptions.  *)

\* How many codes a run describes.
MaxCodes == 2

\* The codes: a first character "0" or "9", a second "F" or "X", four
\* characters of filling, a seventh "L" or "Z", an eighth "T" or "S"; and
\* their prefixes of 0, 1, 2 and 3 characters.
Firsts == {48, 57}
Seconds == {70, 88}
Fillings == {<<57, 57, 57, 57>>, <<76, 84, 56, 56>>}
Sevenths == {76, 90}
Eighths == {84, 83}

EventTypeCodes ==
  {<<>>}
  \cup {<<a>> : a \in Firsts}
  \cup {<<a, b>> : a \in Firsts, b \in Seconds}
  \cup {<<a, b, c>> : a \in Firsts, b \in Seconds, c \in Sevenths}
  \cup {<<a, b>> \o f \o <<g>> :
          a \in Firsts, b \in Seconds, f \in Fillings, g \in Sevenths}
  \cup {<<a, b>> \o f \o <<g, h>> :
          a \in Firsts, b \in Seconds, f \in Fillings, g \in Sevenths,
          h \in Eighths}

DescribeInit ==
  /\ data = <<>> /\ pos = 0 /\ pc = "describe"
  /\ start = None /\ version = None /\ nbytes = None /\ num_blocks = None
  /\ blocks_info = <<>> /\ block_map = <<>> /\ result = <<>>
  /\ group_index = None /\ calls = <<>> /\ returns = <<>>

DescribeEventType ==
  /\ pc = "describe"
  /\ Len(calls) < MaxCodes
  /\ \E code \in EventTypeCodes :
       /\ calls' = Append(calls, code)
       /\ returns' = Append(returns, describe_event_type(code))
  /\ UNCHANGED <<data, pos, pc, start, version, nbytes, num_blocks, blocks_info,
                 block_map, result, group_index>>

DescribeNext == DescribeEventType

DescribeSpec == DescribeInit /\ [][DescribeNext]_vars

\* Two codes of length >= 2 agree at indices 0 and 1 and at index 6, or
\* neither has an index 6.
AgreeAt016(a, b) ==
  /\ Len(a) >= 2 /\ Len(b) >= 2
  /\ a[1] = b[1] /\ a[2] = b[2]
  /\ \/ Len(a) > 6 /\ Len(b) > 6 /\ a[7] = b[7]
     \/ Len(a) <= 6 /\ Len(b) <= 6

\* How many of the characters at indices 0, 1 and 6 the tables recognise.
RecognisedCount(code) ==
  (IF code[1] \in {48, 49, 50} THEN 1 ELSE 0)
  + (IF code[2] \in {70, 65, 79, 77} THEN 1 ELSE 0)
  + (IF Len(code) > 6 /\ code[7] \in {76, 84} THEN 1 ELSE 0)

(* C16 as stated.  The description depends only on the characters at       *)
(* indices 0, 1 and 6: two codes of length >= 2 that agree there get the   *)
(* same description; a code shorter than 2 characters yields "unknown"; an *)
(* unrecognised character at one of these indices contributes nothing, so  *)
(* the description has one part per recognised character.                  *)
C16_DependsOn016 ==
  \A i, j \in DOMAIN returns :
    /\ Len(calls[i]) < 2 => returns[i] = <<"unknown">>
    /\ Len(calls[i]) >= 2 => Len(returns[i]) = RecognisedCount(calls[i])
    /\ AgreeAt016(calls[i], calls[j]) => returns[i] = returns[j]

(* C16 as amended.  A code shorter than 2 characters yields "unknown".     *)
(* For a code of length >= 2 with at least one recognised character at     *)
(* indices 0, 1, 6 the description has one part per recognised character   *)
(* and depends only on those three characters: two such codes that agree   *)
(* there get the same description.  When none of the three is recognised   *)
(* the result is the code itself, whole.                                   *)
C16_DependsOn016WhenRecognised ==
  \A i, j \in DOMAIN returns :
    /\ Len(calls[i]) < 2 => returns[i] = <<"unknown">>
    /\ (Len(calls[i]) >= 2 /\ RecognisedCount(calls[i]) > 0) =>
         /\ Len(returns[i]) = RecognisedCount(calls[i])
         /\ returns[i][1] # "code"
         /\ AgreeAt016(calls[i], calls[j]) => returns[i] = returns[j]
    /\ (Len(calls[i]) >= 2 /\ RecognisedCount(calls[i]) = 0) =>
         returns[i] = <<"code", calls[i]>>

\* Two codes that differ after index 1 and outside index 6 and have the
\* same description, by a recognised first character and launch flag.
C16_Witness ==
  /\ Len(returns) = 2
  /\ calls[1] # calls[2]
  /\ Len(calls[1]) = 7 /\ Len(calls[2]) = 8
  /\ AgreeAt016(calls[1], calls[2])
  /\ returns[1] = <<"non-reflective", "launch-fiber">>
  /\ returns[2] = returns[1]

\* What is left of the buffer after the cursor: the quantity every iteration
\* of the loop of parse_map makes smaller.
LeftInBuffer(p) == Len(data) - p

(* C17.  parse_map terminates on every buffer and every declared nbytes.   *)
(* While the loop runs the cursor is inside the buffer and at least 7      *)
(* bytes further per entry read; an iteration that does not raise moves    *)
(* the cursor forward by at least 7 bytes, so what is left of the buffer   *)
(* shrinks and the loop runs at most len(data) / 7 times; an iteration     *)
(* that raises does so at a read for which the buffer holds too few bytes; *)
(* the loop is left without a raise only with pos >= start + nbytes.       *)
C17_ParseMapTerminates ==
  /\ [](pc = "map_loop" =>
         /\ LeftInBuffer(pos) >= 0
         /\ 7 * Len(blocks_info) <= pos - start)
  /\ [][(pc = "map_loop" /\ pc' = "map_loop") =>
          /\ pos' >= pos + 7
          /\ LeftInBuffer(pos') < LeftInBuffer(pos)
          /\ Len(blocks_info') = Len(blocks_info) + 1]_vars
  /\ [][(pc = "map_loop" /\ pc' = "raised") => LeftInBuffer(pos') < 4]_vars
  /\ [][(pc = "map_loop" /\ pc' = "offsets") => pos >= start + nbytes]_vars
  /\ [][(pc \in {"raised", "offsets"}) => ~(pc' \in {"parse_map", "map_loop"})]_vars

\* The loop read entries and then raised with the cursor one past the end
\* of the buffer: the name it read last had no NUL terminator, and nbytes
\* lies beyond the buffer.
C17_Witness ==
  /\ pc = "raised"
  /\ blocks_info # <<>>
  /\ pos = Len(data) + 1
  /\ data[Len(data)] # 0
  /\ start + nbytes > Len(data)

====
